---- MODULE Spec2Model ----
(***************************************************************************)
(* Review session of feynman-flashcards (src/app.py, src/ai.py,            *)
(* src/mochi.py).  The Streamlit script is re-executed from the top on     *)
(* every user event and on every st.rerun(); one action of this module is  *)
(* one execution of the script, named after the handler that the event     *)
(* reaches.  Variables are the fields of st.session_state that the review  *)
(* session reads and writes, the recording held by the navigation audio    *)
(* widget, and a record of what the run did (the handler reached, the      *)
(* outcome of the collaborator call it made, the outcome records emitted). *)
(*                                                                         *)
(* Texts are sequences of tokens; the empty text <<>> stands for both ""   *)
(* and None wherever the code only tests truthiness.                       *)
(*                                                                         *)
(* Left out: the fields the session only writes (resolved_content,         *)
(* selected_deck_id, auto_submitted, the played flags), transcribed_answer  *)
(* and last_audio_key, whose only effect is to skip the transcription of a *)
(* recording already transcribed: here a recording may be transcribed on   *)
(* any run, which allows every behaviour of the code and more.             *)
(*                                                                         *)
(* answer_text is the text the learner gives as an answer in a behaviour,  *)
(* typed into the answer box or spoken; run_input and eval_args record the *)
(* text a run received and its evaluate_answer call (arguments, response). *)
(*                                                                         *)
(* card_store and created_cards are the cards Mochi holds; the session     *)
(* works on the copy of the queue it fetched (current_cards).  The chat    *)
(* and the "Suggest New Card" / "Add Card to Deck" pair are left out.      *)
(***************************************************************************)
EXTENDS Integers, Sequences, FiniteSets, TLC

\* ------------------------------------------------------------------ bounds
\* cap on follow_up_count (the voice path of the code has none)
MaxFollowUpCount == 4
\* queue fetches followed in one behaviour
MaxFetches == 2

\* expansion cards created in one behaviour
MaxCreated == 2
\* lines of a card content drawn for the parser
MaxLines == 3
\* chat messages held by the session in one behaviour
MaxChat == 4
\* pieces of a page drawn for fetch_source_content
MaxPage == 4
\* largest max_length drawn for fetch_source_content
MaxLength == 2
\* pieces of a card content drawn for resolve_card_images
MaxPieces == 3
\* requests of one pagination loop followed
MaxRequests == 4

\* --------------------------------------------------------- program constants
max_follow_ups == 3

\* ------------------------------------------------------------------ tokens
NL == "\n"
WS == {NL, " "}
Urls == {"https://x.test/a", "http://y.test/b"}
SourceKw == {"Source:", "source:"}
SourceField == {"Source", "source"}
None == "None"

RECURSIVE SkipWs(_, _)
\* index of the first token at or after i that is not whitespace (regex \s*)
SkipWs(s, i) == IF i <= Len(s) /\ s[i] \in WS THEN SkipWs(s, i + 1) ELSE i

AtLineStart(s, i) == i = 1 \/ s[i - 1] = NL

\* ^Source:\s*(https?://\S+) matches at token i (re.MULTILINE | re.IGNORECASE)
SourceMatchAt(s, i) ==
    /\ i <= Len(s)
    /\ AtLineStart(s, i)
    /\ s[i] \in SourceKw
    /\ SkipWs(s, i + 1) <= Len(s)
    /\ s[SkipWs(s, i + 1)] \in Urls

\* last token consumed by ^Source:\s*https?://\S+\s*\n? matched at token i
SourceMatchEnd(s, i) == SkipWs(s, SkipWs(s, i + 1) + 1) - 1

\* a removal that leaves the text as it is
RemoveSourceLines_Keep(s, i) == SubSeq(s, i, Len(s))

RECURSIVE RemoveSourceLines(_, _)
\* re.sub of every match of the Source line pattern by ''
RemoveSourceLines(s, i) ==
    IF i > Len(s) THEN <<>>
    ELSE IF SourceMatchAt(s, i) THEN RemoveSourceLines(s, SourceMatchEnd(s, i) + 1)
    ELSE <<s[i]>> \o RemoveSourceLines(s, i + 1)

\* <<\s*Source\s*>>\s*\n?(https?://\S+) matches at token i
TemplateSourceMatchAt(s, i) ==
    /\ i <= Len(s)
    /\ s[i] = "<<"
    /\ LET j == SkipWs(s, i + 1) IN
       /\ j <= Len(s)
       /\ s[j] \in SourceField
       /\ LET k == SkipWs(s, j + 1) IN
          /\ k <= Len(s)
          /\ s[k] = ">>"
          /\ SkipWs(s, k + 1) <= Len(s)
          /\ s[SkipWs(s, k + 1)] \in Urls

TemplateSourceUrl(s, i) == s[SkipWs(s, SkipWs(s, SkipWs(s, i + 1) + 1) + 1)]

\* rightmost of the match positions S (str.rsplit), 0 when there is none
FirstIndex_Last(S) == IF S = {} THEN 0 ELSE CHOOSE i \in S : \A j \in S : i >= j

\* leftmost of the match positions S, 0 when there is none
FirstIndex(S) == IF S = {} THEN 0 ELSE CHOOSE i \in S : \A j \in S : i <= j

RECURSIVE LStrip(_, _)
\* str.lstrip: drop the leading tokens that belong to chars
LStrip(s, chars) == IF s # <<>> /\ Head(s) \in chars THEN LStrip(Tail(s), chars) ELSE s

RECURSIVE RStrip(_, _)
RStrip(s, chars) ==
    IF s # <<>> /\ s[Len(s)] \in chars THEN RStrip(SubSeq(s, 1, Len(s) - 1), chars) ELSE s

\* str.strip()
Strip(s) == RStrip(LStrip(s, WS), WS)

IsSeparator(s, i) == s[i] = "---"

IsNewline(s, i) == s[i] = NL

Contains(s, t) == \E i \in 1..Len(s) : s[i] = t

\* a parser that reads lines[1] without testing len(lines): IndexError on one line
parse_card_content_Unguarded(content) ==
    LET m1 == FirstIndex({i \in 1..Len(content) : SourceMatchAt(content, i)})
        url1 == IF m1 # 0 THEN content[SkipWs(content, m1 + 1)] ELSE None
        c == IF m1 # 0 THEN RemoveSourceLines(content, 1) ELSE content
        m2 == FirstIndex({i \in 1..Len(c) : TemplateSourceMatchAt(c, i)})
        source_url == IF m2 # 0 /\ url1 = None THEN TemplateSourceUrl(c, m2) ELSE url1
        sep == FirstIndex({i \in 1..Len(c) : IsSeparator(c, i)})
        stripped == Strip(c)
        nl == FirstIndex({i \in 1..Len(stripped) : IsNewline(stripped, i)})
    IN  IF sep # 0
        THEN [question |-> Strip(LStrip(Strip(SubSeq(c, 1, sep - 1)), {"#"})),
              answer |-> Strip(SubSeq(c, sep + 1, Len(c))),
              source_url |-> source_url]
        ELSE IF Contains(c, "<<") /\ Contains(c, ">>")
        THEN [question |-> c, answer |-> <<>>, source_url |-> source_url]
        ELSE IF nl # 0
        THEN [question |-> Strip(LStrip(SubSeq(stripped, 1, nl - 1), {"#"})),
              answer |-> Strip(SubSeq(stripped, nl + 1, Len(stripped))),
              source_url |-> source_url]
        ELSE [question |-> <<"IndexError">>,
              answer |-> <<"IndexError">>,
              source_url |-> source_url]

\* a parser that tests the template markers before the separator
parse_card_content_TemplateFirst(content) ==
    LET m1 == FirstIndex({i \in 1..Len(content) : SourceMatchAt(content, i)})
        url1 == IF m1 # 0 THEN content[SkipWs(content, m1 + 1)] ELSE None
        c == IF m1 # 0 THEN RemoveSourceLines(content, 1) ELSE content
        m2 == FirstIndex({i \in 1..Len(c) : TemplateSourceMatchAt(c, i)})
        source_url == IF m2 # 0 /\ url1 = None THEN TemplateSourceUrl(c, m2) ELSE url1
        sep == FirstIndex({i \in 1..Len(c) : IsSeparator(c, i)})
        stripped == Strip(c)
        nl == FirstIndex({i \in 1..Len(stripped) : IsNewline(stripped, i)})
    IN  IF Contains(c, "<<") /\ Contains(c, ">>")
        THEN [question |-> c, answer |-> <<>>, source_url |-> source_url]
        ELSE IF sep # 0
        THEN [question |-> Strip(LStrip(Strip(SubSeq(c, 1, sep - 1)), {"#"})),
              answer |-> Strip(SubSeq(c, sep + 1, Len(c))),
              source_url |-> source_url]
        ELSE IF nl # 0
        THEN [question |-> Strip(LStrip(SubSeq(stripped, 1, nl - 1), {"#"})),
              answer |-> Strip(SubSeq(stripped, nl + 1, Len(stripped))),
              source_url |-> source_url]
        ELSE [question |-> Strip(LStrip(stripped, {"#"})),
              answer |-> <<>>,
              source_url |-> source_url]

\* ai.parse_card_content: (question, answer, source_url)
parse_card_content(content) ==
    LET m1 == FirstIndex({i \in 1..Len(content) : SourceMatchAt(content, i)})
        url1 == IF m1 # 0 THEN content[SkipWs(content, m1 + 1)] ELSE None
        c == IF m1 # 0 THEN RemoveSourceLines(content, 1) ELSE content
        m2 == FirstIndex({i \in 1..Len(c) : TemplateSourceMatchAt(c, i)})
        source_url == IF m2 # 0 /\ url1 = None THEN TemplateSourceUrl(c, m2) ELSE url1
        sep == FirstIndex({i \in 1..Len(c) : IsSeparator(c, i)})
        stripped == Strip(c)
        nl == FirstIndex({i \in 1..Len(stripped) : IsNewline(stripped, i)})
    IN  IF sep # 0
        THEN [question |-> Strip(LStrip(Strip(SubSeq(c, 1, sep - 1)), {"#"})),
              answer |-> Strip(SubSeq(c, sep + 1, Len(c))),
              source_url |-> source_url]
        ELSE IF Contains(c, "<<") /\ Contains(c, ">>")
        THEN [question |-> c, answer |-> <<>>, source_url |-> source_url]
        ELSE IF nl # 0
        THEN [question |-> Strip(LStrip(SubSeq(stripped, 1, nl - 1), {"#"})),
              answer |-> Strip(SubSeq(stripped, nl + 1, Len(stripped))),
              source_url |-> source_url]
        ELSE [question |-> Strip(LStrip(stripped, {"#"})),
              answer |-> <<>>,
              source_url |-> source_url]


\* ------------------------------------------------------------ card store
CardIds == {"c1", "c2"}

MediaRefs == {"![](@media/a.png)", "![alt](@media/a.png)", "![](@media/b.png)"}

\* content of the cards held by the card store (Mochi) when the session starts
CardContent ==
    [id \in CardIds |->
        CASE id = "c1" -> <<"#", " ", "Q1", NL, "---", NL, "A1">>
          [] OTHER     -> <<"Source:", " ", "https://x.test/a", NL, "Q2", NL, "---", NL, "A2">>]

\* the queues a fetch can return: cards of the store, each at most once
Queues ==
    {q \in UNION {[1..n -> CardIds] : n \in 1..Cardinality(CardIds)} :
        \A i, j \in 1..Len(q) : q[i] = q[j] => i = j}

\* new_ref: the reference with the data URL of its attachment
DataUrl(ref) ==
    CASE ref = "![](@media/a.png)" -> "![](data:image/png;base64,YQ==)"
      [] ref = "![alt](@media/a.png)" -> "![alt](data:image/png;base64,YQ==)"
      [] OTHER -> "![](data:image/png;base64,Yg==)"

IsMediaRef(t) == t \in MediaRefs

\* re.findall(pattern, content): the references in order, repeated ones included
MediaMatches(content) == SelectSeq(content, IsMediaRef)

\* outcome of get_attachment for each match: TRUE fetched, FALSE raised
FetchOutcomes(content) == [1..Len(MediaMatches(content)) -> BOOLEAN]

\* str.replace(old_ref, new_ref)
ReplaceAll(s, old_ref, new_ref) ==
    [i \in 1..Len(s) |-> IF s[i] = old_ref THEN new_ref ELSE s[i]]

RECURSIVE ResolveFrom(_, _, _, _)
\* the loop over matches from the k-th on: a fetched attachment replaces every
\* occurrence of its reference, a failed fetch is skipped
ResolveFrom(resolved_content, matches, outcomes, k) ==
    IF k > Len(matches) THEN resolved_content
    ELSE ResolveFrom(
             IF outcomes[k]
             THEN ReplaceAll(resolved_content, matches[k], DataUrl(matches[k]))
             ELSE resolved_content,
             matches, outcomes, k + 1)

\* resolve_card_images that gives up at the first attachment it cannot fetch
resolve_card_images_StopAtFailure(content, outcomes) ==
    LET matches == MediaMatches(content)
        failed == {k \in 1..Len(matches) : ~outcomes[k]}
        reached == [k \in 1..Len(matches) |-> \A f \in failed : k < f]
    IN  ResolveFrom(content, matches, reached, 1)

\* mochi.resolve_card_images
resolve_card_images(content, outcomes) ==
    LET matches == MediaMatches(content)
    IN  IF matches = <<>> THEN content
        ELSE ResolveFrom(content, matches, outcomes, 1)

\* ---------------------------------------------------------------- gateway
\* ai.rephrase_question: the stripped text returned by the provider
Rephrasings == {"Put differently:"}

rephrase_question(question, variant) == <<variant>> \o question

FollowUpText == <<"Why?">>
Feedback == <<"feedback">>
DefaultFeedback == <<"Unable", " ", "to", " ", "evaluate.">>

\* JSON objects the evaluator may answer with (score in tenths)
EvalObjects ==
    {[is_correct |-> TRUE, score |-> 9, feedback |-> Feedback, follow_up |-> <<>>],
     [is_correct |-> TRUE, score |-> 9, feedback |-> Feedback, follow_up |-> FollowUpText],
     [is_correct |-> FALSE, score |-> 4, feedback |-> Feedback, follow_up |-> FollowUpText],
     [score |-> 9]}

EvalFields == {"is_correct", "score", "feedback", "follow_up"}

Restrict(obj, keys) == [k \in keys |-> obj[k]]

\* JSON objects with any subset of the four fields (follow_up null is <<>>)
AllEvalObjects ==
    {Restrict([is_correct |-> b, score |-> sc, feedback |-> fb, follow_up |-> fu], keys) :
        b \in BOOLEAN, sc \in {0, 4, 9}, fb \in {Feedback, <<>>},
        fu \in {<<>>, FollowUpText}, keys \in SUBSET EvalFields}

\* provider call raises / answers text that is not JSON / JSON that is no object
EvalFailures == {"raise", "nonjson", "notobject"}

Get(obj, key, default) == IF key \in DOMAIN obj THEN obj[key] ELSE default

\* an evaluate_answer that derives a missing is_correct from the score
evaluate_answer_Derived(result) ==
    [is_correct |-> Get(result, "is_correct", Get(result, "score", 0) >= 8),
     score |-> Get(result, "score", 0),
     feedback |-> Get(result, "feedback", DefaultFeedback),
     follow_up |-> Get(result, "follow_up", <<>>)]

\* ai.evaluate_answer, the dict built from the parsed JSON object
evaluate_answer(result) ==
    [is_correct |-> Get(result, "is_correct", FALSE),
     score |-> Get(result, "score", 0),
     feedback |-> Get(result, "feedback", DefaultFeedback),
     follow_up |-> Get(result, "follow_up", <<>>)]

NoEvaluation == [none |-> TRUE]

\* ai.fetch_source_content: extracted text, <<>> for None
SourceTexts == {<<"source", " ", "text">>}

\* -------------------------------------------------------------- commands
\* str.strip() of the texts used here
StripText(t) == IF t = " " THEN "" ELSE t

\* str.lower().strip() of the texts used here
LowerStrip(t) ==
    CASE t = "Skip" -> "skip"
      [] t = "Next card" -> "next card"
      [] t = "Got it" -> "got it"
      [] t = "Next" -> "next"
      [] t = "I will skip the details" -> "i will skip the details"
      [] OTHER -> StripText(t)

\* transcripts of what is spoken besides the answer text: commands, silence
AnswerTranscripts == {"Skip", "Next card", "continue", ""}
NavTranscripts == {"Got it", "Next", "again", "skip", "continue", "Next card"}
TypedAnswers == {"I will skip the details"}

\* the texts a learner may give as an answer: a sentence, a blank, command
\* phrases, nothing
AnswerTexts == TypedAnswers \cup {" ", "skip", "Got it", ""}

NoInput == "<none>"
NoCall == [none |-> TRUE]

\* no call of ai.py or mochi.py is being followed
NoLibCall == [fn |-> "none"]

\* ------------------------------------------------------------------ state
VARIABLES
    openai_key,            \* whether st.session_state.openai_key is set
    current_cards, current_card_index, review_state,
    rephrased_question, original_question, original_answer,
    source_url, source_content, use_source, source_cache,
    conversation_history, current_evaluation, follow_up_count,
    pending_action,
    answer_text,           \* the learner's answer text in this behaviour
    nav_audio,             \* the nav_audio_eval widget holds a recording
    fetches,               \* queues fetched so far
    review_log,            \* outcome records emitted since the queue was fetched
    last_cmd,              \* handler reached by the last run of the script
    call_result,           \* outcome of the collaborator call of the last run
    run_error,             \* the last run ended with an uncaught exception
    run_input,             \* text typed or transcribed that the last run acted on
    card_store,            \* Mochi: content of each card of the deck
    created_cards,         \* Mochi: cards created by the session
    pending_modification,  \* suggestion shown under "Suggested Modification"
    pending_expansions,    \* expansion cards shown for review
    chat_messages,         \* st.session_state.chat_messages
    lib_call,              \* call of ai.py or mochi.py followed on its own: inputs, locals, result
    eval_args              \* evaluate_answer call of the last run: arguments, response

vars == <<openai_key, current_cards, current_card_index, review_state,
          rephrased_question, original_question, original_answer,
          source_url, source_content, use_source, source_cache,
          conversation_history, current_evaluation, follow_up_count,
          pending_action, answer_text, nav_audio,
          fetches, review_log, last_cmd, call_result, run_error,
          run_input, eval_args,
          card_store, created_cards, pending_modification, pending_expansions,
          chat_messages, lib_call>>

cardVars == <<original_question, original_answer, source_url, source_content, use_source>>

editVars == <<card_store, created_cards, pending_modification, pending_expansions>>

NoSuggestion == [none |-> TRUE]

\* a card object as a fetch returns it
Card(id) == [id |-> id, content |-> card_store[id]]

CardsOf(q) == [i \in 1..Len(q) |-> Card(q[i])]

\* session-state defaults, with both services connected
SessionDefaults ==
    /\ openai_key \in BOOLEAN
    /\ current_cards = <<>>
    /\ current_card_index = 0
    /\ review_state = "idle"
    /\ rephrased_question = <<>>
    /\ original_question = <<>>
    /\ original_answer = <<>>
    /\ source_url = None
    /\ source_content = <<>>
    /\ use_source = FALSE
    /\ source_cache = [u \in {} |-> <<>>]
    /\ conversation_history = <<>>
    /\ current_evaluation = NoEvaluation
    /\ follow_up_count = 0
    /\ pending_action = "none"
    /\ nav_audio = FALSE
    /\ fetches = 0
    /\ review_log = <<>>
    /\ last_cmd = "init"
    /\ call_result = "none"
    /\ run_error = FALSE
    /\ run_input = NoInput
    /\ eval_args = NoCall
    /\ card_store = CardContent
    /\ created_cards = <<>>
    /\ pending_modification = NoSuggestion
    /\ pending_expansions = <<>>
    /\ chat_messages = <<>>

\* a learner who answers with a sentence
Init ==
    /\ SessionDefaults
    /\ answer_text \in TypedAnswers
    /\ lib_call = NoLibCall

\* a learner who answers with any of the answer texts
InitInputs ==
    /\ SessionDefaults
    /\ answer_text \in AnswerTexts
    /\ lib_call = NoLibCall

Did(cmd, result, error) ==
    /\ last_cmd' = cmd
    /\ call_result' = result
    /\ run_error' = error

\* a run that acts on no text and does not call evaluate_answer
Ran(cmd, result, error) ==
    /\ Did(cmd, result, error)
    /\ run_input' = NoInput
    /\ eval_args' = NoCall

\* ---------------------------------------------------------- queue loading
\* session_state written when a fetched queue is not empty
LoadQueue(cards) ==
    /\ current_cards' = cards
    /\ current_card_index' = 0
    /\ review_state' = "question"
    /\ conversation_history' = <<>>
    /\ follow_up_count' = 0
    /\ fetches' = fetches + 1
    /\ review_log' = <<>>

\* main content, review_state == "idle": fetch the due cards
AutoStart ==
    /\ review_state = "idle"
    /\ fetches < MaxFetches
    /\ \/ \E q \in Queues :
            /\ LoadQueue(CardsOf(q))
            /\ Ran("auto_start", "ok", FALSE)
       \/ /\ Ran("auto_start", "empty", FALSE)
          /\ UNCHANGED <<current_cards, current_card_index, review_state,
                         conversation_history, follow_up_count, fetches, review_log>>
       \/ /\ Ran("auto_start", "raise", TRUE)
          /\ UNCHANGED <<current_cards, current_card_index, review_state,
                         conversation_history, follow_up_count, fetches, review_log>>
    /\ UNCHANGED <<openai_key, answer_text, chat_messages, lib_call, editVars, rephrased_question, cardVars, source_cache,
                   current_evaluation, pending_action, nav_audio>>

\* sidebar button "Review This Deck"
ReviewThisDeck ==
    /\ fetches < MaxFetches
    /\ \/ \E q \in Queues :
            /\ LoadQueue(CardsOf(q))
            /\ nav_audio' = FALSE
            /\ Ran("review_this_deck", "ok", FALSE)
       \/ /\ Ran("review_this_deck", "empty", FALSE)
          /\ UNCHANGED <<current_cards, current_card_index, review_state,
                         conversation_history, follow_up_count, fetches, review_log, nav_audio>>
       \/ /\ Ran("review_this_deck", "raise", TRUE)
          /\ UNCHANGED <<current_cards, current_card_index, review_state,
                         conversation_history, follow_up_count, fetches, review_log, nav_audio>>
    /\ UNCHANGED <<openai_key, answer_text, chat_messages, lib_call, editVars, rephrased_question, cardVars, source_cache,
                   current_evaluation, pending_action>>

InAnswerBlock == review_state \in {"question", "answering", "follow_up"}

\* the card at the current index
CurrentCard == current_cards[current_card_index + 1]

\* start_new_card that leaves follow_up_count as it is
StartNewCard_KeepCount ==
    /\ InAnswerBlock
    /\ rephrased_question = <<>>
    /\ \E outcomes \in FetchOutcomes(CurrentCard.content) :
        LET resolved_content == resolve_card_images(CurrentCard.content, outcomes)
            parsed == parse_card_content(resolved_content)
            cached == parsed.source_url # None /\ parsed.source_url \in DOMAIN source_cache
        IN  /\ original_question' = parsed.question
            /\ original_answer' = parsed.answer
            /\ source_url' = parsed.source_url
            /\ source_content' = IF cached THEN source_cache[parsed.source_url] ELSE <<>>
            /\ use_source' = cached
            /\ \/ \E v \in Rephrasings :
                    /\ rephrased_question' = rephrase_question(parsed.question, v)
                    /\ Ran("start_new_card", "ok", FALSE)
                    /\ conversation_history' = <<>>
                    /\ current_evaluation' = NoEvaluation
                    /\ UNCHANGED follow_up_count
               \/ /\ rephrased_question' = <<>>
                  /\ Ran("start_new_card", "empty", FALSE)
                  /\ conversation_history' = <<>>
                  /\ current_evaluation' = NoEvaluation
                  /\ UNCHANGED follow_up_count
               \/ /\ Ran("start_new_card", "raise", TRUE)
                  /\ UNCHANGED <<rephrased_question, conversation_history,
                                 current_evaluation, follow_up_count>>
    /\ UNCHANGED <<openai_key, answer_text, chat_messages, lib_call, editVars, current_cards, current_card_index, review_state,
                   source_cache, pending_action, nav_audio, fetches, review_log>>

\* start_new_card(), called when rephrased_question is empty
StartNewCard ==
    /\ InAnswerBlock
    /\ rephrased_question = <<>>
    /\ \E outcomes \in FetchOutcomes(CurrentCard.content) :
        LET resolved_content == resolve_card_images(CurrentCard.content, outcomes)
            parsed == parse_card_content(resolved_content)
            cached == parsed.source_url # None /\ parsed.source_url \in DOMAIN source_cache
        IN  /\ original_question' = parsed.question
            /\ original_answer' = parsed.answer
            /\ source_url' = parsed.source_url
            /\ source_content' = IF cached THEN source_cache[parsed.source_url] ELSE <<>>
            /\ use_source' = cached
            /\ \/ \E v \in Rephrasings :
                    /\ rephrased_question' = rephrase_question(parsed.question, v)
                    /\ Ran("start_new_card", "ok", FALSE)
                    /\ conversation_history' = <<>>
                    /\ current_evaluation' = NoEvaluation
                    /\ follow_up_count' = 0
               \/ /\ rephrased_question' = <<>>
                  /\ Ran("start_new_card", "empty", FALSE)
                  /\ conversation_history' = <<>>
                  /\ current_evaluation' = NoEvaluation
                  /\ follow_up_count' = 0
               \/ /\ Ran("start_new_card", "raise", TRUE)
                  /\ UNCHANGED <<rephrased_question, conversation_history,
                                 current_evaluation, follow_up_count>>
    /\ UNCHANGED <<openai_key, answer_text, chat_messages, lib_call, editVars, current_cards, current_card_index, review_state,
                   source_cache, pending_action, nav_audio, fetches, review_log>>

\* the question is on display: the script passed "Initialize card if needed"
Presented == InAnswerBlock /\ rephrased_question # <<>>

\* a toggle that fetches whenever it is switched on
SourceToggle_AlwaysFetch ==
    /\ Presented
    /\ source_url # None
    /\ use_source' = ~use_source
    /\ IF use_source'
       THEN \/ \E content \in SourceTexts :
                 /\ source_content' = content
                 /\ source_cache' = [u \in DOMAIN source_cache \cup {source_url} |->
                                       IF u = source_url THEN content ELSE source_cache[u]]
                 /\ Ran("source_toggle", "ok", FALSE)
            \/ /\ UNCHANGED <<source_content, source_cache>>
               /\ Ran("source_toggle", "fail", FALSE)
       ELSE /\ UNCHANGED <<source_content, source_cache>>
            /\ Ran("source_toggle", "none", FALSE)
    /\ UNCHANGED <<openai_key, answer_text, chat_messages, lib_call, editVars, current_cards, current_card_index, review_state,
                   rephrased_question, original_question, original_answer, source_url,
                   conversation_history, current_evaluation, follow_up_count,
                   pending_action, nav_audio, fetches, review_log>>

\* a toggle that stores the failure of a fetch in the cache
SourceToggle_CacheFailure ==
    /\ Presented
    /\ source_url # None
    /\ use_source' = ~use_source
    /\ IF use_source' /\ source_content = <<>>
       THEN IF source_url \in DOMAIN source_cache
            THEN /\ source_content' = source_cache[source_url]
                 /\ UNCHANGED source_cache
                 /\ Ran("source_toggle", "none", FALSE)
            ELSE \E content \in SourceTexts \cup {<<>>} :
                      /\ source_content' = content
                      /\ source_cache' = [u \in DOMAIN source_cache \cup {source_url} |->
                                            IF u = source_url THEN content ELSE source_cache[u]]
                      /\ Ran("source_toggle", IF content = <<>> THEN "fail" ELSE "ok", FALSE)
       ELSE /\ UNCHANGED <<source_content, source_cache>>
            /\ Ran("source_toggle", "none", FALSE)
    /\ UNCHANGED <<openai_key, answer_text, chat_messages, lib_call, editVars, current_cards, current_card_index, review_state,
                   rephrased_question, original_question, original_answer, source_url,
                   conversation_history, current_evaluation, follow_up_count,
                   pending_action, nav_audio, fetches, review_log>>

\* toggle "Use Source Context"
SourceToggle ==
    /\ Presented
    /\ source_url # None
    /\ use_source' = ~use_source
    /\ IF use_source' /\ source_content = <<>>
       THEN IF source_url \in DOMAIN source_cache
            THEN /\ source_content' = source_cache[source_url]
                 /\ UNCHANGED source_cache
                 /\ Ran("source_toggle", "none", FALSE)
            ELSE \/ \E content \in SourceTexts :
                      /\ source_content' = content
                      /\ source_cache' = [u \in DOMAIN source_cache \cup {source_url} |->
                                            IF u = source_url THEN content ELSE source_cache[u]]
                      /\ Ran("source_toggle", "ok", FALSE)
                 \/ /\ UNCHANGED <<source_content, source_cache>>
                    /\ Ran("source_toggle", "fail", FALSE)
       ELSE /\ UNCHANGED <<source_content, source_cache>>
            /\ Ran("source_toggle", "none", FALSE)
    /\ UNCHANGED <<openai_key, answer_text, chat_messages, lib_call, editVars, current_cards, current_card_index, review_state,
                   rephrased_question, original_question, original_answer, source_url,
                   conversation_history, current_evaluation, follow_up_count,
                   pending_action, nav_audio, fetches, review_log>>


\* -------------------------------------------- answering block (478-675)
\* a skip check that looks for the word in the text: "skip" in lower_transcribed
SkipPhrases_Containing == {"skip", "skip card", "next card", "pass", "i will skip the details"}

SkipPhrases == {"skip", "skip card", "next card", "pass"}
ContinuePhrases == {"next", "continue", "go on"}

\* a skip that keeps the rephrased question of the card it leaves
AnswerSkip_KeepRephrased(cmd) ==
    /\ current_card_index' = current_card_index + 1
    /\ review_state' = IF current_card_index + 1 >= Len(current_cards)
                       THEN "complete" ELSE "question"
    /\ Did(cmd, "none", FALSE)
    /\ eval_args' = NoCall
    /\ UNCHANGED <<openai_key, answer_text, chat_messages, lib_call, editVars, current_cards, rephrased_question, cardVars, source_cache,
                   conversation_history, current_evaluation, follow_up_count,
                   pending_action, nav_audio, fetches, review_log>>

\* a skip that puts the skipped card back at the end of the queue
AnswerSkip_Requeue(cmd) ==
    /\ current_cards' = Append(current_cards, current_cards[current_card_index + 1])
    /\ current_card_index' = current_card_index + 1
    /\ rephrased_question' = <<>>
    /\ review_state' = "question"
    /\ Did(cmd, "none", FALSE)
    /\ eval_args' = NoCall
    /\ UNCHANGED <<openai_key, answer_text, chat_messages, lib_call, editVars, cardVars, source_cache,
                   conversation_history, current_evaluation, follow_up_count,
                   pending_action, nav_audio, fetches, review_log>>

\* skip handlers of the answering block (voice 606-617, button 623-636)
AnswerSkip(cmd) ==
    /\ current_card_index' = current_card_index + 1
    /\ rephrased_question' = <<>>
    /\ review_state' = IF current_card_index + 1 >= Len(current_cards)
                       THEN "complete" ELSE "question"
    /\ Did(cmd, "none", FALSE)
    /\ eval_args' = NoCall
    /\ UNCHANGED <<openai_key, answer_text, chat_messages, lib_call, editVars, current_cards, cardVars, source_cache,
                   conversation_history, current_evaluation, follow_up_count,
                   pending_action, nav_audio, fetches, review_log>>

\* the evaluate_answer call of a run: its arguments and the provider's response
EvalCall(current_question, user_answer, response) ==
    [question |-> current_question,
     expected_answer |-> original_answer,
     user_answer |-> user_answer,
     conversation_history |-> conversation_history,
     source_content |-> IF use_source THEN source_content ELSE <<>>,
     response |-> response]

\* a submit handler that always evaluates against the rephrased question
SubmitAnswer_AskRephrased(cmd, user_answer) ==
    LET current_question ==
            rephrased_question
    IN  /\ \/ \E result \in EvalObjects :
                LET evaluation == evaluate_answer(result)
                IN  /\ eval_args' = EvalCall(current_question, user_answer, result)
                    /\ conversation_history' =
                           Append(conversation_history,
                                  [question |-> current_question,
                                   user_answer |-> user_answer,
                                   evaluation |-> evaluation])
                    /\ current_evaluation' = evaluation
                    /\ review_state' = "evaluating"
                    /\ Did(cmd, "ok", FALSE)
           \/ \E failure \in EvalFailures :
                /\ eval_args' = EvalCall(current_question, user_answer, failure)
                /\ Did(cmd, failure, TRUE)
                /\ UNCHANGED <<conversation_history, current_evaluation, review_state>>
        /\ UNCHANGED <<openai_key, answer_text, chat_messages, lib_call, editVars, current_cards, current_card_index, rephrased_question,
                       cardVars, source_cache, follow_up_count, pending_action,
                       nav_audio, fetches, review_log>>

\* a submit handler that keeps only the newest Turn
SubmitAnswer_KeepLast(cmd, user_answer) ==
    LET current_question ==
            IF review_state = "follow_up" /\ current_evaluation # NoEvaluation
            THEN current_evaluation.follow_up ELSE rephrased_question
    IN  /\ \/ \E result \in EvalObjects :
                LET evaluation == evaluate_answer(result)
                IN  /\ eval_args' = EvalCall(current_question, user_answer, result)
                    /\ conversation_history' =
                           Append(<<>>,
                                  [question |-> current_question,
                                   user_answer |-> user_answer,
                                   evaluation |-> evaluation])
                    /\ current_evaluation' = evaluation
                    /\ review_state' = "evaluating"
                    /\ Did(cmd, "ok", FALSE)
           \/ \E failure \in EvalFailures :
                /\ eval_args' = EvalCall(current_question, user_answer, failure)
                /\ Did(cmd, failure, TRUE)
                /\ UNCHANGED <<conversation_history, current_evaluation, review_state>>
        /\ UNCHANGED <<openai_key, answer_text, chat_messages, lib_call, editVars, current_cards, current_card_index, rephrased_question,
                       cardVars, source_cache, follow_up_count, pending_action,
                       nav_audio, fetches, review_log>>

\* submit handler (638-675) when the evaluator answers with one of objects
SubmitAnswerOf(cmd, user_answer, objects) ==
    LET current_question ==
            IF review_state = "follow_up" /\ current_evaluation # NoEvaluation
            THEN current_evaluation.follow_up ELSE rephrased_question
    IN  /\ \/ \E result \in objects :
                LET evaluation == evaluate_answer(result)
                IN  /\ eval_args' = EvalCall(current_question, user_answer, result)
                    /\ conversation_history' =
                           Append(conversation_history,
                                  [question |-> current_question,
                                   user_answer |-> user_answer,
                                   evaluation |-> evaluation])
                    /\ current_evaluation' = evaluation
                    /\ review_state' = "evaluating"
                    /\ Did(cmd, "ok", FALSE)
           \/ \E failure \in EvalFailures :
                /\ eval_args' = EvalCall(current_question, user_answer, failure)
                /\ Did(cmd, failure, TRUE)
                /\ UNCHANGED <<conversation_history, current_evaluation, review_state>>
        /\ UNCHANGED <<openai_key, answer_text, chat_messages, lib_call, editVars, current_cards, current_card_index, rephrased_question,
                       cardVars, source_cache, follow_up_count, pending_action,
                       nav_audio, fetches, review_log>>

\* submit handler (638-675) with the evaluator's response
SubmitAnswer(cmd, user_answer) == SubmitAnswerOf(cmd, user_answer, EvalObjects)

\* audio_input holds a new recording, which is transcribed
VoiceAnswer ==
    /\ Presented
    /\ \/ /\ Ran("voice_transcribe", "raise", FALSE)
          /\ UNCHANGED <<openai_key, answer_text, chat_messages, lib_call, editVars, current_cards, current_card_index, review_state,
                         rephrased_question, cardVars, source_cache,
                         conversation_history, current_evaluation, follow_up_count,
                         pending_action, nav_audio, fetches, review_log>>
       \/ /\ openai_key
          /\ \E transcribed \in AnswerTranscripts \cup {StripText(answer_text)} :
                LET lower_transcribed == LowerStrip(transcribed)
                IN  /\ run_input' = transcribed
                    /\ IF lower_transcribed \in SkipPhrases
                       THEN AnswerSkip("voice_skip")
                       ELSE IF lower_transcribed \in ContinuePhrases \/ transcribed = ""
                       THEN /\ Did("voice_noop", "ok", FALSE)
                            /\ eval_args' = NoCall
                            /\ UNCHANGED
                               <<openai_key, answer_text, chat_messages, lib_call, editVars,
                                 current_cards, current_card_index,
                                 review_state, rephrased_question, cardVars,
                                 source_cache, conversation_history,
                                 current_evaluation, follow_up_count,
                                 pending_action, nav_audio, fetches, review_log>>
                       ELSE SubmitAnswer("voice_submit", transcribed)

\* button "Skip" of the answering block
SkipButton ==
    /\ Presented
    /\ run_input' = NoInput
    /\ AnswerSkip("skip_button")

\* button "Submit Answer" with the text of the answer box; the button is
\* disabled while the box is empty
SubmitButton ==
    /\ Presented
    /\ answer_text # ""
    /\ run_input' = answer_text
    /\ SubmitAnswer("submit", answer_text)

\* ------------------------------------------- evaluation block (680-900)
RememberedPhrases == {"got it", "good", "correct", "remembered", "yes", "next"}
ForgotPhrases == {"again", "forgot", "wrong", "no", "repeat"}
NavSkipPhrases == {"skip", "pass", "skip card"}
NavContinuePhrases == {"continue", "follow up", "follow-up", "more", "go on"}

\* every phrase of the voice command checks (583, 585, 744-753)
Vocabulary ==
    {"skip", "skip card", "next card", "pass", "next", "continue", "go on",
     "got it", "good", "correct", "remembered", "yes",
     "again", "forgot", "wrong", "no", "repeat",
     "follow up", "follow-up", "more"}

\* pending_action set by the voice navigation (744-755), "none" when no branch matches
NavAction(nav_lower, follow_up) ==
    IF nav_lower \in RememberedPhrases THEN "remembered"
    ELSE IF nav_lower \in ForgotPhrases THEN "forgot"
    ELSE IF nav_lower \in NavSkipPhrases THEN "skip"
    ELSE IF nav_lower \in NavContinuePhrases /\ follow_up # <<>> THEN "continue"
    ELSE "none"

\* a recording is in nav_audio_eval and its transcript matches a command:
\* pending_action is set and the script reruns at once
NavVoice ==
    /\ review_state = "evaluating"
    /\ openai_key
    /\ \E nav_transcribed \in NavTranscripts :
        LET action == NavAction(LowerStrip(nav_transcribed), current_evaluation.follow_up)
        IN  /\ action # "none"
            /\ pending_action' = action
            /\ run_input' = nav_transcribed
    /\ nav_audio' = TRUE
    /\ Did("nav_voice", "ok", FALSE)
    /\ eval_args' = NoCall
    /\ UNCHANGED <<openai_key, answer_text, chat_messages, lib_call, editVars, current_cards, current_card_index, review_state,
                   rephrased_question, cardVars, source_cache, conversation_history,
                   current_evaluation, follow_up_count, fetches, review_log>>

\* the run requested by st.rerun() of the voice navigation: the widget still
\* holds the recording, which is transcribed again and queues its command again
NavVoiceAgain ==
    /\ review_state = "evaluating"
    /\ openai_key
    /\ nav_audio
    /\ last_cmd \in {"nav_voice", "nav_voice_again"}
    /\ LET action == NavAction(LowerStrip(run_input), current_evaluation.follow_up)
       IN  /\ action # "none"
           /\ pending_action' = action
    /\ Did("nav_voice_again", "ok", FALSE)
    /\ eval_args' = NoCall
    /\ UNCHANGED <<openai_key, answer_text, chat_messages, lib_call, editVars, current_cards, current_card_index,
                   review_state, rephrased_question, cardVars, source_cache,
                   conversation_history, current_evaluation, follow_up_count,
                   nav_audio, fetches, review_log, run_input>>

\* the recording is deleted, or its transcription fails or matches no command:
\* the script goes on to the handlers below
NavFallsThrough == nav_audio' = FALSE

\* move_to_next reached only when the outcome was recorded
MoveToNext_OnlyOnSuccess ==
    IF call_result' = "raise"
    THEN UNCHANGED <<current_card_index, rephrased_question, review_state,
                     conversation_history, follow_up_count, chat_messages>>
    ELSE /\ current_card_index' = current_card_index + 1
         /\ rephrased_question' = <<>>
         /\ review_state' = IF current_card_index + 1 >= Len(current_cards)
                            THEN "complete" ELSE "question"
         /\ conversation_history' = <<>>
         /\ chat_messages' = <<>>
         /\ follow_up_count' = 0

\* move_to_next that resets the per-card state without advancing the index
MoveToNext_KeepIndex ==
    /\ UNCHANGED current_card_index
    /\ rephrased_question' = <<>>
    /\ review_state' = "question"
    /\ conversation_history' = <<>>
    /\ chat_messages' = <<>>
    /\ follow_up_count' = 0

\* move_to_next that completes the session one card late
MoveToNext_OffByOne ==
    /\ current_card_index' = current_card_index + 1
    /\ rephrased_question' = <<>>
    /\ review_state' = IF current_card_index + 1 > Len(current_cards)
                       THEN "complete" ELSE "question"
    /\ conversation_history' = <<>>
    /\ chat_messages' = <<>>
    /\ follow_up_count' = 0

\* advance of the evaluation block (move_to_next 849-863, pending handlers 763-774)
MoveToNext ==
    /\ current_card_index' = current_card_index + 1
    /\ rephrased_question' = <<>>
    /\ review_state' = IF current_card_index + 1 >= Len(current_cards)
                       THEN "complete" ELSE "question"
    /\ conversation_history' = <<>>
    /\ chat_messages' = <<>>
    /\ follow_up_count' = 0

\* mochi.review_card(card_id, remembered): the record reaches the sink or the call raises
ReviewOutcomes == {"ok", "raise"}

\* the call of mochi.review_card made by a mark command
ReviewCard(card_id, remembered) ==
    review_log' = Append(review_log, [card_id |-> card_id, remembered |-> remembered])

\* pending_action "next" or "skip"
PendingSkip ==
    /\ review_state = "evaluating"
    /\ pending_action \in {"next", "skip"}
    /\ pending_action' = "none"
    /\ NavFallsThrough
    /\ Ran("pending_skip", "none", FALSE)
    /\ MoveToNext
    /\ UNCHANGED <<openai_key, answer_text, lib_call, editVars, current_cards, cardVars, source_cache,
                   current_evaluation, fetches, review_log>>

\* pending_action "continue"
PendingContinue ==
    /\ review_state = "evaluating"
    /\ pending_action = "continue"
    /\ follow_up_count < MaxFollowUpCount
    /\ pending_action' = "none"
    /\ NavFallsThrough
    /\ follow_up_count' = follow_up_count + 1
    /\ review_state' = "follow_up"
    /\ Ran("pending_continue", "none", FALSE)
    /\ UNCHANGED <<openai_key, answer_text, chat_messages, lib_call, editVars, current_cards, current_card_index, rephrased_question,
                   cardVars, source_cache, conversation_history, current_evaluation,
                   fetches, review_log>>

\* pending_action "remembered" / "forgot": record, then advance whatever the call did
PendingMark(action, remembered, cmd) ==
    /\ review_state = "evaluating"
    /\ pending_action = action
    /\ pending_action' = "none"
    /\ NavFallsThrough
    /\ ReviewCard(CurrentCard.id, remembered)
    /\ \E outcome \in ReviewOutcomes : Ran(cmd, outcome, FALSE)
    /\ MoveToNext
    /\ UNCHANGED <<openai_key, answer_text, lib_call, editVars, current_cards, cardVars, source_cache,
                   current_evaluation, fetches>>

PendingRemembered == PendingMark("remembered", TRUE, "pending_remembered")

PendingForgot == PendingMark("forgot", FALSE, "pending_forgot")

\* the script reaches the buttons of the evaluation block
ButtonsReached ==
    /\ review_state = "evaluating"
    /\ pending_action = "none"

\* guard of the button "Continue Discussion"
ContinueOffered ==
    /\ current_evaluation.follow_up # <<>>
    /\ ~current_evaluation.is_correct
    /\ follow_up_count < max_follow_ups

\* a Continue Discussion that does not count the follow-up
ContinueDiscussion_NoCount ==
    /\ ButtonsReached
    /\ ContinueOffered
    /\ follow_up_count < MaxFollowUpCount
    /\ UNCHANGED follow_up_count
    /\ review_state' = "follow_up"
    /\ NavFallsThrough
    /\ Ran("continue_button", "none", FALSE)
    /\ UNCHANGED <<openai_key, answer_text, chat_messages, lib_call, editVars, current_cards, current_card_index, rephrased_question,
                   cardVars, source_cache, conversation_history, current_evaluation,
                   pending_action, fetches, review_log>>

ContinueDiscussion ==
    /\ ButtonsReached
    /\ ContinueOffered
    /\ follow_up_count < MaxFollowUpCount
    /\ follow_up_count' = follow_up_count + 1
    /\ review_state' = "follow_up"
    /\ NavFallsThrough
    /\ Ran("continue_button", "none", FALSE)
    /\ UNCHANGED <<openai_key, answer_text, chat_messages, lib_call, editVars, current_cards, current_card_index, rephrased_question,
                   cardVars, source_cache, conversation_history, current_evaluation,
                   pending_action, fetches, review_log>>

\* both buttons recording remembered=True
MarkButton_AlwaysRemembered(remembered, cmd) ==
    /\ review_state = "evaluating"
    /\ pending_action = "none"
    /\ review_log' = Append(review_log,
                            [card_id |-> current_cards[current_card_index + 1].id,
                             remembered |-> TRUE])
    /\ \E outcome \in {"ok", "raise"} : Ran(cmd, outcome, FALSE)
    /\ current_card_index' = current_card_index + 1
    /\ rephrased_question' = <<>>
    /\ review_state' = IF current_card_index + 1 >= Len(current_cards)
                       THEN "complete" ELSE "question"
    /\ conversation_history' = <<>>
    /\ chat_messages' = <<>>
    /\ follow_up_count' = 0
    /\ nav_audio' = FALSE
    /\ UNCHANGED <<openai_key, answer_text, lib_call, editVars, current_cards, cardVars, source_cache,
                   current_evaluation, pending_action, fetches>>

\* buttons "Got it!" / "Again": record, then move_to_next whatever the call did
MarkButton(remembered, cmd) ==
    /\ ButtonsReached
    /\ ReviewCard(CurrentCard.id, remembered)
    /\ \E outcome \in ReviewOutcomes : Ran(cmd, outcome, FALSE)
    /\ MoveToNext
    /\ NavFallsThrough
    /\ UNCHANGED <<openai_key, answer_text, lib_call, editVars, current_cards, cardVars, source_cache,
                   current_evaluation, pending_action, fetches>>

GotIt == MarkButton(TRUE, "got_it")

Again == MarkButton(FALSE, "again")

\* button "Skip" of the evaluation block
SkipEval ==
    /\ ButtonsReached
    /\ Ran("skip_eval", "none", FALSE)
    /\ MoveToNext
    /\ NavFallsThrough
    /\ UNCHANGED <<openai_key, answer_text, lib_call, editVars, current_cards, cardVars, source_cache,
                   current_evaluation, pending_action, fetches, review_log>>

\* ------------------------------- card actions (968-1057, 1102-1193)
\* JSON objects ai.suggest_card_modification may return
Suggestions ==
    {[question |-> <<"Q1b">>, answer |-> <<"A1b">>],
     [answer |-> <<"A1b">>]}

\* text the learner may type into the "Edit question" box over the suggestion
EditedQuestions == {<<"#", " ", "Q1c">>}

\* f"{mod_question}\n\n---\n\n{mod_answer}"
NewContent(mod_question, mod_answer) ==
    mod_question \o <<NL, NL, "---", NL, NL>> \o mod_answer

\* button "Suggest Modification"
SuggestModification ==
    /\ ButtonsReached
    /\ NavFallsThrough
    /\ \/ \E suggestion \in Suggestions :
            /\ pending_modification' = suggestion
            /\ Ran("suggest_modification", "ok", FALSE)
       \/ /\ UNCHANGED pending_modification
          /\ Ran("suggest_modification", "raise", FALSE)
    /\ UNCHANGED <<openai_key, answer_text, chat_messages, lib_call, current_cards, current_card_index, review_state,
                   rephrased_question, cardVars, source_cache, conversation_history,
                   current_evaluation, follow_up_count, pending_action, fetches,
                   review_log, card_store, created_cards, pending_expansions>>

\* button "Save Changes to Card"
SaveChanges ==
    /\ ButtonsReached
    /\ pending_modification # NoSuggestion
    /\ NavFallsThrough
    /\ \E mod_question \in {Get(pending_modification, "question", original_question)}
                                \cup EditedQuestions :
        LET mod_answer == Get(pending_modification, "answer", original_answer)
            new_content == NewContent(mod_question, mod_answer)
        IN  \/ /\ card_store' = [card_store EXCEPT ![CurrentCard.id] = new_content]
               /\ pending_modification' = NoSuggestion
               /\ original_question' = mod_question
               /\ original_answer' = mod_answer
               /\ Ran("save_changes", "ok", FALSE)
            \/ /\ Ran("save_changes", "raise", FALSE)
               /\ UNCHANGED <<card_store, pending_modification,
                              original_question, original_answer>>
    /\ UNCHANGED <<openai_key, answer_text, chat_messages, lib_call, current_cards, current_card_index, review_state,
                   rephrased_question, source_url, source_content, use_source,
                   source_cache, conversation_history, current_evaluation,
                   follow_up_count, pending_action, fetches, review_log,
                   created_cards, pending_expansions>>

\* button "Cancel" of the suggested modification
CancelModification ==
    /\ ButtonsReached
    /\ pending_modification # NoSuggestion
    /\ NavFallsThrough
    /\ pending_modification' = NoSuggestion
    /\ Ran("cancel_modification", "none", FALSE)
    /\ UNCHANGED <<openai_key, answer_text, chat_messages, lib_call, current_cards, current_card_index, review_state,
                   rephrased_question, cardVars, source_cache, conversation_history,
                   current_evaluation, follow_up_count, pending_action, fetches,
                   review_log, card_store, created_cards, pending_expansions>>

\* lists ai.generate_expansion_cards may return besides []
ExpansionLists ==
    {<<[question |-> <<"EQ1">>, answer |-> <<"EA1">>, concept |-> <<"concept">>]>>}

\* button "Generate Expansion Cards"
GenerateExpansions ==
    /\ ButtonsReached
    /\ NavFallsThrough
    /\ \/ \E expansion_cards \in ExpansionLists :
            /\ pending_expansions' = expansion_cards
            /\ Ran("generate_expansions", "ok", FALSE)
       \/ /\ UNCHANGED pending_expansions
          /\ Ran("generate_expansions", "empty", FALSE)
       \/ /\ UNCHANGED pending_expansions
          /\ Ran("generate_expansions", "raise", FALSE)
    /\ UNCHANGED <<openai_key, answer_text, chat_messages, lib_call, current_cards, current_card_index, review_state,
                   rephrased_question, cardVars, source_cache, conversation_history,
                   current_evaluation, follow_up_count, pending_action, fetches,
                   review_log, card_store, created_cards, pending_modification>>

\* ai.build_expansion_card_content
build_expansion_card_content(question, answer, source_card_id, concept) ==
    question \o <<NL, NL, "---", NL, NL>> \o answer
        \o <<NL, NL, "<details>", NL, "<summary>Expanded from</summary>", NL, NL>>
        \o (IF concept # <<>> THEN <<"Concept:", " ">> \o concept ELSE <<>>)
        \o <<NL, "Source card:", " ", source_card_id, NL, "</details>">>

\* ids Mochi gives to the cards it creates, in order of creation
NewCardIds == <<"e1", "e2", "e3", "e4">>

\* the summary line of the links section
LinksMarker == "<summary>Expansion cards</summary>"

RECURSIVE LinkLines(_)
LinkLines(ids) ==
    IF ids = <<>> THEN <<>> ELSE <<"-", " ", Head(ids), NL>> \o LinkLines(Tail(ids))

\* links_section built from created_ids
LinksSection(created_ids) ==
    <<NL, NL, "<details>", NL, LinksMarker, NL, NL>> \o LinkLines(created_ids)
        \o <<"</details>">>

\* button "Save Selected Expansion Cards", the first n cards being included
SaveExpansions ==
    /\ ButtonsReached
    /\ pending_expansions # <<>>
    /\ NavFallsThrough
    /\ \E n \in 0..Len(pending_expansions) :
        LET cards_to_save == SubSeq(pending_expansions, 1, n)
            card_id == CurrentCard.id
            new_cards ==
                [i \in 1..n |->
                    [id |-> NewCardIds[Len(created_cards) + i],
                     content |-> build_expansion_card_content(
                                     cards_to_save[i].question, cards_to_save[i].answer,
                                     <<card_id>>, cards_to_save[i].concept)]]
            created_ids == [i \in 1..n |-> new_cards[i].id]
            original_content == CurrentCard.content
        IN  /\ Len(created_cards) + n <= MaxCreated
            /\ \/ /\ created_cards' = created_cards \o new_cards
                  /\ card_store' =
                        IF ~Contains(original_content, LinksMarker)
                        THEN [card_store EXCEPT
                                ![card_id] = original_content \o LinksSection(created_ids)]
                        ELSE card_store
                  /\ pending_expansions' = <<>>
                  /\ Ran("save_expansions", "ok", FALSE)
               \/ /\ n > 0
                  /\ UNCHANGED <<created_cards, card_store, pending_expansions>>
                  /\ Ran("save_expansions", "raise", FALSE)
               \/ /\ ~Contains(original_content, LinksMarker)
                  /\ created_cards' = created_cards \o new_cards
                  /\ UNCHANGED <<card_store, pending_expansions>>
                  /\ Ran("save_expansions", "update_raise", FALSE)
    /\ UNCHANGED <<openai_key, answer_text, chat_messages, lib_call, current_cards, current_card_index, review_state,
                   rephrased_question, cardVars, source_cache, conversation_history,
                   current_evaluation, follow_up_count, pending_action, fetches,
                   review_log, pending_modification>>

\* ------------------------------------------ chat (902-966), ai.py 406-481
\* what the learner types or says in the chat, and what the tutor replies
ChatInputs == {"m1", "m2"}
ChatResponses == {"r1"}

\* conversation_history[-10:]
ChatWindow == 10
LastN(s, n) == IF Len(s) <= n THEN s ELSE SubSeq(s, Len(s) - n + 1, Len(s))

Message(role, content) == [role |-> role, content |-> content]

\* chat_followup: the messages sent after the system prompt
chat_followup(history, user_message) ==
    LastN(history, ChatWindow) \o <<Message("user", user_message)>>

\* chat input, typed ("chat") or spoken and transcribed ("chat_voice")
Chat ==
    /\ ButtonsReached
    /\ NavFallsThrough
    /\ Len(chat_messages) < MaxChat
    /\ \/ /\ openai_key
          /\ Ran("chat_transcribe", "raise", FALSE)
          /\ UNCHANGED <<chat_messages, lib_call>>
       \/ \E chat_input \in ChatInputs, cmd \in {"chat", "chat_voice"} :
            LET with_user == Append(chat_messages, Message("user", chat_input))
                source == IF use_source /\ source_content # <<>>
                          THEN source_content ELSE <<>>
            IN  /\ cmd = "chat_voice" => openai_key
                /\ lib_call' = [fn |-> "chat_followup",
                                messages |-> chat_followup(with_user, chat_input),
                                user_message |-> chat_input,
                                source_content |-> source]
                /\ run_input' = chat_input
                /\ eval_args' = NoCall
                /\ \/ \E response \in ChatResponses :
                        /\ chat_messages' =
                               Append(with_user, Message("assistant", response))
                        /\ Did(cmd, "ok", FALSE)
                   \/ /\ chat_messages' = with_user
                      /\ Did(cmd, "raise", FALSE)
    /\ UNCHANGED <<openai_key, answer_text, editVars, current_cards, current_card_index,
                   review_state, rephrased_question, cardVars, source_cache,
                   conversation_history, current_evaluation, follow_up_count,
                   pending_action, fetches, review_log>>

\* ------------------------------------------------------ session complete
\* a new session that restarts the queue it already holds
StartNewSession_Restart ==
    /\ review_state = "complete"
    /\ review_state' = "question"
    /\ current_card_index' = 0
    /\ rephrased_question' = <<>>
    /\ conversation_history' = <<>>
    /\ chat_messages' = <<>>
    /\ Ran("start_new_session", "none", FALSE)
    /\ UNCHANGED <<openai_key, answer_text, lib_call, editVars, current_cards, cardVars, source_cache,
                   current_evaluation, follow_up_count, pending_action, nav_audio,
                   fetches, review_log>>

\* button "Start New Session"
StartNewSession ==
    /\ review_state = "complete"
    /\ review_state' = "idle"
    /\ current_cards' = <<>>
    /\ current_card_index' = 0
    /\ rephrased_question' = <<>>
    /\ conversation_history' = <<>>
    /\ chat_messages' = <<>>
    /\ Ran("start_new_session", "none", FALSE)
    /\ UNCHANGED <<openai_key, answer_text, lib_call, editVars, cardVars, source_cache, current_evaluation,
                   follow_up_count, pending_action, nav_audio, fetches, review_log>>

Next ==
    \/ AutoStart
    \/ ReviewThisDeck
    \/ StartNewCard
    \/ SourceToggle
    \/ VoiceAnswer
    \/ SkipButton
    \/ SubmitButton
    \/ NavVoice
    \/ NavVoiceAgain
    \/ PendingSkip
    \/ PendingContinue
    \/ PendingRemembered
    \/ PendingForgot
    \/ ContinueDiscussion
    \/ GotIt
    \/ Again
    \/ SkipEval
    \/ StartNewSession

Spec == Init /\ [][Next]_vars

SpecInputs == InitInputs /\ [][Next]_vars

\* button "Submit Answer" when the evaluator may answer with any JSON object
SubmitEval ==
    /\ Presented
    /\ answer_text # ""
    /\ run_input' = answer_text
    /\ SubmitAnswerOf("submit", answer_text, AllEvalObjects)

NextEval ==
    \/ AutoStart
    \/ StartNewCard
    \/ SubmitEval

NextEdit ==
    \/ AutoStart
    \/ StartNewCard
    \/ SubmitButton
    \/ GotIt
    \/ SuggestModification
    \/ SaveChanges
    \/ CancelModification
    \/ GenerateExpansions
    \/ SaveExpansions

\* one pass over a queue with the card actions of the evaluation block
SpecEdit == Init /\ [][NextEdit]_vars

NextChat ==
    \/ AutoStart
    \/ StartNewCard
    \/ SubmitButton
    \/ Chat
    \/ GotIt

\* one pass over a queue with the chat of the evaluation block
SpecChat == Init /\ [][NextChat]_vars

\* ------------------------------------ ai.fetch_source_content (128-176)
\* the session variables, which a call followed on its own leaves alone
sessionVars == <<openai_key, current_cards, current_card_index, review_state,
                 rephrased_question, cardVars, source_cache,
                 conversation_history, current_evaluation, follow_up_count,
                 pending_action, answer_text, nav_audio,
                 fetches, review_log, last_cmd, call_result, run_error,
                 run_input, eval_args, editVars, chat_messages>>

\* pieces of a page: a letter, a blank, a tag
PagePieces == {"x", " ", "<b>"}

Pages == UNION {[1..n -> PagePieces] : n \in 0..MaxPage}

\* re.sub(r'<[^>]+>', ' ', html)
TagsToBlanks(page) ==
    [i \in 1..Len(page) |-> IF page[i] = "<b>" THEN " " ELSE page[i]]

RECURSIVE CollapseBlanks(_)
\* re.sub(r'\s+', ' ', text)
CollapseBlanks(s) ==
    IF Len(s) < 2 THEN s
    ELSE IF s[1] = " " /\ s[2] = " " THEN CollapseBlanks(Tail(s))
    ELSE <<s[1]>> \o CollapseBlanks(Tail(s))

\* "... [truncated]"
TruncationSuffix ==
    <<".", ".", ".", " ", "[", "t", "r", "u", "n", "c", "a", "t", "e", "d", "]">>

\* fetch_source_content: the text returned for a page, <<>> for None
fetch_source_content(page, max_length, failed) ==
    IF failed THEN <<>>
    ELSE LET text == Strip(CollapseBlanks(TagsToBlanks(page)))
         IN  IF Len(text) > max_length
             THEN SubSeq(text, 1, max_length) \o TruncationSuffix
             ELSE text

\* a page to fetch: the request fails or answers with the page
InitFetch ==
    /\ SessionDefaults
    /\ answer_text \in TypedAnswers
    /\ \E page \in Pages, max_length \in 1..MaxLength, failed \in BOOLEAN :
            lib_call = [fn |-> "fetch_source_content", page |-> page,
                        max_length |-> max_length, failed |-> failed,
                        done |-> FALSE, result |-> <<>>]

FetchSourceContent ==
    /\ lib_call.fn = "fetch_source_content"
    /\ ~lib_call.done
    /\ lib_call' = [lib_call EXCEPT
                        !.done = TRUE,
                        !.result = fetch_source_content(lib_call.page,
                                       lib_call.max_length, lib_call.failed)]
    /\ UNCHANGED sessionVars

NextFetch == FetchSourceContent

\* fetch_source_content applied to a page
SpecFetch == InitFetch /\ [][NextFetch]_vars

\* ------------------------------------ mochi.resolve_card_images (309-345)
\* pieces of a card content: text, or an @media reference
ContentPieces == MediaRefs \cup {"text"}

MediaContents == UNION {[1..n -> ContentPieces] : n \in 0..MaxPieces}

\* a card content and, for each match, whether its attachment can be fetched
InitImages ==
    /\ SessionDefaults
    /\ answer_text \in TypedAnswers
    /\ \E content \in MediaContents :
        \E outcomes \in FetchOutcomes(content) :
            lib_call = [fn |-> "resolve_card_images", content |-> content,
                        outcomes |-> outcomes, done |-> FALSE, result |-> <<>>]

ResolveCardImages ==
    /\ lib_call.fn = "resolve_card_images"
    /\ ~lib_call.done
    /\ lib_call' = [lib_call EXCEPT
                        !.done = TRUE,
                        !.result = resolve_card_images(lib_call.content,
                                                       lib_call.outcomes)]
    /\ UNCHANGED sessionVars

NextImages == ResolveCardImages

\* resolve_card_images applied to a card content
SpecImages == InitImages /\ [][NextImages]_vars

\* ------------------- mochi.get_decks (58-89), get_cards_by_deck (120-155)
\* bookmark values the server uses
Bookmarks == {"b1", "b2"}

\* the docs of the page the server returns for a bookmark, when it has any
DocsOf(bookmark) ==
    CASE bookmark = None -> <<"d0">>
      [] bookmark = "b1" -> <<"d1">>
      [] OTHER -> <<"d2">>

\* response.json() for each request: docs, and the bookmark (None when absent)
Servers ==
    [Bookmarks \cup {None} ->
        [has_docs : BOOLEAN, bookmark : Bookmarks \cup {None}]]

\* a call of one of the two functions against a server
InitPages ==
    /\ SessionDefaults
    /\ answer_text \in TypedAnswers
    /\ \E fn \in {"get_decks", "get_cards_by_deck"}, server \in Servers :
            lib_call = [fn |-> fn, server |-> server, bookmark |-> None,
                        docs |-> <<>>, requests |-> <<>>,
                        done |-> FALSE, raised |-> FALSE]

\* one iteration of the while loop; stops_on_empty is the test
\* "not data.get('docs')" that only get_cards_by_deck makes
PageStep(fn, stops_on_empty) ==
    /\ lib_call.fn = fn
    /\ ~lib_call.done
    /\ Len(lib_call.requests) < MaxRequests
    /\ LET bookmark == lib_call.bookmark
           data == lib_call.server[bookmark]
           page == IF data.has_docs THEN DocsOf(bookmark) ELSE <<>>
           new_bookmark == data.bookmark
           break == \/ new_bookmark = None
                    \/ new_bookmark = bookmark
                    \/ stops_on_empty /\ page = <<>>
       IN  \/ lib_call' = [lib_call EXCEPT
                               !.requests = Append(@, bookmark),
                               !.done = TRUE,
                               !.raised = TRUE]
           \/ lib_call' = [lib_call EXCEPT
                               !.requests = Append(@, bookmark),
                               !.docs = @ \o page,
                               !.bookmark = IF break THEN @ ELSE new_bookmark,
                               !.done = break]
    /\ UNCHANGED sessionVars

GetDecks == PageStep("get_decks", FALSE)

GetCardsByDeck == PageStep("get_cards_by_deck", TRUE)

NextPages ==
    \/ GetDecks
    \/ GetCardsByDeck

\* the pagination loops against a server
SpecPages == InitPages /\ [][NextPages]_vars

\* lines a card content is made of: Source lines (capitalised, lower case
\* without blank, indented), header and plain text, separator, template
\* fields with and without a URL, a header marker alone
LineTemplates ==
    {<<"Source:", " ", "https://x.test/a">>,
     <<"source:", "http://y.test/b">>,
     <<" ", "Source:", " ", "https://x.test/a">>,
     <<"#", " ", "Q1">>,
     <<"A1">>,
     <<"---">>,
     <<"<<", " ", "Source", " ", ">>", NL, "http://y.test/b">>,
     <<"<<", "Front", ">>">>,
     <<"#">>}

RECURSIVE JoinLines(_)
\* "\n".join(ls)
JoinLines(ls) ==
    IF ls = <<>> THEN <<>>
    ELSE IF Len(ls) = 1 THEN ls[1]
    ELSE ls[1] \o <<NL>> \o JoinLines(Tail(ls))

\* contents a card of the store may hold
RawContents ==
    {JoinLines(ls) : ls \in UNION {[1..n -> LineTemplates] : n \in 0..MaxLines}}

\* a queue of one card of any content has been fetched
InitParse ==
    /\ openai_key = TRUE
    /\ current_cards \in {<<[id |-> "c1", content |-> c]>> : c \in RawContents}
    /\ current_card_index = 0
    /\ review_state = "question"
    /\ rephrased_question = <<>>
    /\ original_question = <<>>
    /\ original_answer = <<>>
    /\ source_url = None
    /\ source_content = <<>>
    /\ use_source = FALSE
    /\ source_cache = [u \in {} |-> <<>>]
    /\ conversation_history = <<>>
    /\ current_evaluation = NoEvaluation
    /\ follow_up_count = 0
    /\ pending_action = "none"
    /\ answer_text \in TypedAnswers
    /\ nav_audio = FALSE
    /\ fetches = 1
    /\ review_log = <<>>
    /\ last_cmd = "auto_start"
    /\ call_result = "ok"
    /\ run_error = FALSE
    /\ run_input = NoInput
    /\ eval_args = NoCall
    /\ card_store = [id \in {"c1"} |-> current_cards[1].content]
    /\ created_cards = <<>>
    /\ pending_modification = NoSuggestion
    /\ pending_expansions = <<>>
    /\ chat_messages = <<>>
    /\ lib_call = NoLibCall

NextParse == StartNewCard

\* the first card of a queue is parsed, over every content
SpecParse == InitParse /\ [][NextParse]_vars

\* first answers of a session, over every shape of evaluator response
SpecEval == Init /\ [][NextEval]_vars


\* ---------------------------------------------------------------- claims
MarkRememberedCmds == {"got_it", "pending_remembered"}
MarkForgottenCmds == {"again", "pending_forgot"}
MarkCmds == MarkRememberedCmds \cup MarkForgottenCmds
AnswerSkipCmds == {"skip_button", "voice_skip"}
EvalSkipCmds == {"skip_eval", "pending_skip"}
AdvanceCmds == MarkCmds \cup AnswerSkipCmds \cup EvalSkipCmds
SubmitCmds == {"submit", "voice_submit"}
LoadCmds == {"auto_start", "review_this_deck", "start_new_session"}
\* the states in which a card is under review
ActiveStates == {"question", "answering", "follow_up", "evaluating"}

\* C1: the number of Turns in conversation_history of a card never exceeds 3
C1_TurnsAtMostMax == Len(conversation_history) <= max_follow_ups

\* C2: a submit with a non-empty answer always ends in the evaluation state with
\* a Turn appended and no exception, also when the evaluate call fails
C2_SubmitReachesEvaluation ==
    last_cmd \in SubmitCmds =>
        /\ review_state = "evaluating"
        /\ ~run_error
        /\ conversation_history # <<>>
        /\ current_evaluation = conversation_history[Len(conversation_history)].evaluation

\* C3: when the rephrase call raises, the card is presented with the original
\* question and the run does not fail
C3_RephraseFallsBack ==
    (last_cmd = "start_new_card" /\ call_result = "raise") =>
        /\ ~run_error
        /\ Presented
        /\ rephrased_question = original_question

\* C4: a mark command whose review_card call raises still advances the index by
\* one and reaches the next card or session completion, by button and by voice
C4_RecordFailureStillAdvances ==
    [][(last_cmd' \in MarkCmds /\ call_result' = "raise") =>
          /\ current_card_index' = current_card_index + 1
          /\ review_state' = IF current_card_index' >= Len(current_cards')
                             THEN "complete" ELSE "question"
          /\ rephrased_question' = <<>>
          /\ ~run_error']_vars

C4_Witness ==
    /\ last_cmd = "pending_remembered"
    /\ call_result = "raise"
    /\ current_card_index = 1
    /\ review_state = "question"

\* C5: the step from the evaluation state to follow_up is taken only when the
\* verdict has a follow_up, is_correct is false and the depth is below the maximum
C5_FollowUpOnlyWhenOffered ==
    [][(review_state = "evaluating" /\ review_state' = "follow_up") => ContinueOffered]_vars

\* C6: follow_up_count never exceeds max_follow_ups
C6_FollowUpCountAtMostMax == follow_up_count <= max_follow_ups

\* C7: the counter decreases only by being reset to 0, which only an advance
\* (the handler itself or start_new_card of the card advanced to) or a queue
\* load does; an advance from the evaluation state resets it at once; and
\* whenever the first question of a card is presented the counter is 0
C7_ResetOnAdvanceOnly ==
    [][/\ (follow_up_count' < follow_up_count =>
              /\ follow_up_count' = 0
              /\ last_cmd' \in MarkCmds \cup EvalSkipCmds \cup
                               {"start_new_card", "auto_start", "review_this_deck"})
       /\ (last_cmd' \in MarkCmds \cup EvalSkipCmds => follow_up_count' = 0)
       /\ (Presented' /\ review_state' = "question" => follow_up_count' = 0)]_vars

C7_Witness ==
    /\ current_card_index = 1
    /\ review_state = "follow_up"
    /\ follow_up_count = 1
    /\ last_cmd = "continue_button"

\* C8: when the question of a card reached by an advance is presented, the
\* history is empty, the counter is 0 and the rephrased question was computed
\* from that card
C8_NextCardStartsFresh ==
    (review_state = "question" /\ Presented /\ current_card_index > 0) =>
        /\ conversation_history = <<>>
        /\ follow_up_count = 0
        /\ \E v \in Rephrasings, outcomes \in FetchOutcomes(CurrentCard.content) :
              rephrased_question =
                 rephrase_question(
                    parse_card_content(
                       resolve_card_images(CurrentCard.content, outcomes)).question, v)

C8_Witness ==
    /\ review_state = "question"
    /\ Presented
    /\ current_card_index > 0
    /\ last_cmd = "start_new_card"

\* C9: review_card is called by the mark commands and by nothing else, with the
\* id of the card at the current index and remembered = true for mark-remembered
\* and false for mark-forgotten; no skip emits a record
C9_OutcomeExactlyOnMark ==
    [][/\ (last_cmd' \in MarkRememberedCmds =>
              review_log' = Append(review_log, [card_id |-> CurrentCard.id,
                                                remembered |-> TRUE]))
       /\ (last_cmd' \in MarkForgottenCmds =>
              review_log' = Append(review_log, [card_id |-> CurrentCard.id,
                                                remembered |-> FALSE]))
       /\ (last_cmd' \in AnswerSkipCmds \cup EvalSkipCmds => review_log' = review_log)
       /\ (Len(review_log') > Len(review_log) => last_cmd' \in MarkCmds)]_vars

C9_Witness ==
    /\ last_cmd = "again"
    /\ review_log # <<>>
    /\ ~review_log[Len(review_log)].remembered

\* C10: between two queue loads the queue is unchanged, every advance command
\* adds exactly one to current_card_index and no other command changes it
C10_ForwardByOne ==
    [][last_cmd' \notin LoadCmds =>
          /\ current_cards' = current_cards
          /\ current_card_index' = IF last_cmd' \in AdvanceCmds
                                   THEN current_card_index + 1
                                   ELSE current_card_index]_vars

C10_Witness ==
    /\ last_cmd = "voice_skip"
    /\ current_card_index = 1
    /\ review_state = "question"

\* C11 (as stated): once review_state is 'complete', no command moves this
\* session back into an active review state
C11_CompleteIsTerminal ==
    [][review_state = "complete" => review_state' \notin ActiveStates]_vars

\* C11 (amended): 'complete' is left only by Start New Session (to idle, with
\* the queue emptied) or by a Review This Deck that fetched a queue; and an
\* active state is entered from idle or complete only by a queue fetch, which
\* resets the session state in place: index 0, empty history, counter 0 and no
\* rephrased question, so that the first card is rephrased afresh
C11_CompleteLeftByNewQueue ==
    [][/\ (review_state = "complete" /\ review_state' # "complete" =>
              \/ /\ last_cmd' = "start_new_session"
                 /\ review_state' = "idle"
                 /\ current_cards' = <<>>
                 /\ current_card_index' = 0
              \/ /\ last_cmd' = "review_this_deck"
                 /\ call_result' = "ok")
       /\ (review_state \notin ActiveStates /\ review_state' \in ActiveStates =>
              /\ fetches' = fetches + 1
              /\ current_cards' # <<>>
              /\ current_card_index' = 0
              /\ review_state' = "question"
              /\ conversation_history' = <<>>
              /\ follow_up_count' = 0
              /\ rephrased_question' = <<>>)]_vars

C11_Witness ==
    /\ last_cmd = "auto_start"
    /\ call_result = "ok"
    /\ fetches = 2
    /\ review_state = "question"

\* C12: review_state is 'complete' exactly when the index has reached the
\* length of a fetched queue, and in the active states the index is within
\* the queue
C12_IndexInRange ==
    /\ review_state = "complete" <=>
          (current_cards # <<>> /\ current_card_index = Len(current_cards))
    /\ review_state \in ActiveStates =>
          (0 <= current_card_index /\ current_card_index < Len(current_cards))

C12_Witness ==
    /\ review_state = "complete"
    /\ last_cmd \in AdvanceCmds
    /\ current_card_index = 2
    /\ Len(current_cards) = 2

\* C13: a submit whose answer text is empty or only whitespace is a no-op: no
\* evaluate call, no Turn appended, review_state unchanged
C13_BlankSubmitIsNoOp ==
    [][(run_input' # NoInput /\ StripText(run_input') = "") =>
          /\ eval_args' = NoCall
          /\ conversation_history' = conversation_history
          /\ review_state' = review_state]_vars

\* C14: a spoken text acts as a command only when its trimmed, lower-cased
\* form is a phrase of the vocabulary; any other non-empty text given while an
\* answer is awaited is submitted verbatim as the answer and never skips
C14_CommandOnlyOnExactMatch ==
    run_input # NoInput =>
        /\ last_cmd \in {"voice_skip", "nav_voice"} => LowerStrip(run_input) \in Vocabulary
        /\ (last_cmd # "nav_voice" /\ LowerStrip(run_input) \notin Vocabulary \cup {""}) =>
              /\ last_cmd \in SubmitCmds
              /\ eval_args # NoCall
              /\ eval_args.user_answer = run_input
              /\ call_result = "ok" =>
                    conversation_history[Len(conversation_history)].user_answer = run_input

C14_Witness ==
    /\ last_cmd = "voice_submit"
    /\ call_result = "ok"
    /\ run_input = "I will skip the details"
    /\ conversation_history[Len(conversation_history)].user_answer = "I will skip the details"

\* C15: a phrase maps to the same command whether typed or spoken and in every
\* state: the skip phrases skip, the mark and continue phrases are never taken
\* as an answer and, where a command is set, set their own command
C15_SamePhraseSameCommand ==
    run_input # NoInput =>
        LET t == LowerStrip(run_input)
        IN  /\ t \in {"skip", "skip card", "next card", "pass"} =>
                  \/ last_cmd = "voice_skip"
                  \/ last_cmd = "nav_voice" /\ pending_action = "skip"
            /\ t \in {"got it", "good", "correct", "yes"} =>
                  /\ last_cmd \notin SubmitCmds
                  /\ last_cmd = "nav_voice" => pending_action = "remembered"
            /\ t \in {"again", "forgot", "wrong", "no"} =>
                  /\ last_cmd \notin SubmitCmds
                  /\ last_cmd = "nav_voice" => pending_action = "forgot"
            /\ t \in {"continue", "follow up", "more"} =>
                  /\ last_cmd \notin SubmitCmds
                  /\ last_cmd = "nav_voice" => pending_action = "continue"

\* C16: a fetch is performed only for a URL that is not in source_cache, a
\* successful fetch puts it there and entries are never dropped or changed, so
\* a URL is fetched at most once after a success; a later switching on and a
\* later card with the same URL take the content from the cache
C16_FetchOnlyOnMiss ==
    [][/\ (last_cmd' = "source_toggle" /\ call_result' \in {"ok", "fail"}) =>
              source_url \notin DOMAIN source_cache
       /\ \A u \in DOMAIN source_cache :
              u \in DOMAIN source_cache' /\ source_cache'[u] = source_cache[u]
       /\ (last_cmd' = "source_toggle" /\ call_result' = "ok") =>
              /\ source_url \in DOMAIN source_cache'
              /\ source_content' = source_cache'[source_url]
       /\ (last_cmd' = "source_toggle" /\ use_source' /\ source_url \in DOMAIN source_cache) =>
              /\ call_result' = "none"
              /\ source_content' = source_cache[source_url]
       /\ (last_cmd' = "start_new_card" /\ source_url' \in DOMAIN source_cache) =>
              /\ use_source'
              /\ source_content' = source_cache[source_url']
              /\ source_cache' = source_cache]_vars

C16_Witness ==
    /\ last_cmd = "source_toggle"
    /\ call_result = "none"
    /\ use_source
    /\ source_url \in DOMAIN source_cache
    /\ source_content = source_cache[source_url]

\* C17: a failed fetch stores nothing and leaves the source content empty,
\* and whenever the source is switched on with no content and no cache entry
\* for the URL a fetch is performed, also after a failure
C17_FailureNotCached ==
    [][last_cmd' = "source_toggle" =>
          /\ call_result' = "fail" =>
                /\ source_cache' = source_cache
                /\ source_url \notin DOMAIN source_cache'
                /\ source_content' = <<>>
          /\ (use_source' /\ source_content = <<>> /\ source_url \notin DOMAIN source_cache) =>
                call_result' \in {"ok", "fail"}]_vars

C17_Witness ==
    /\ last_cmd = "source_toggle"
    /\ call_result = "fail"
    /\ use_source
    /\ source_content = <<>>
    /\ source_url \notin DOMAIN source_cache

\* C18: every evaluate call is given the session's original answer as the
\* expected answer, and in the follow_up state the question passed to it and
\* recorded in the new Turn is the follow_up of the previous verdict
C18_FollowUpAsksFollowUp ==
    [][last_cmd' \in SubmitCmds =>
          /\ eval_args'.expected_answer = original_answer
          /\ original_answer' = original_answer
          /\ review_state = "follow_up" =>
                /\ current_evaluation # NoEvaluation
                /\ conversation_history # <<>>
                /\ current_evaluation =
                      conversation_history[Len(conversation_history)].evaluation
                /\ eval_args'.question = current_evaluation.follow_up
                /\ call_result' = "ok" =>
                      conversation_history'[Len(conversation_history')].question =
                         current_evaluation.follow_up]_vars

C18_Witness ==
    /\ last_cmd \in SubmitCmds
    /\ call_result = "ok"
    /\ follow_up_count = 2
    /\ Len(conversation_history) = 3
    /\ conversation_history[3].question = FollowUpText
    /\ eval_args.question = FollowUpText
    /\ eval_args.expected_answer = parse_card_content(CurrentCard.content).answer

\* the Turns of the history belong to the card on display: the first asks its
\* rephrased question, each later one the follow_up of the Turn before it
TurnsOfCurrentCard ==
    (Presented \/ review_state = "evaluating") =>
        /\ conversation_history # <<>> =>
              conversation_history[1].question = rephrased_question
        /\ \A i \in 1..(Len(conversation_history) - 1) :
              conversation_history[i + 1].question =
                 conversation_history[i].evaluation.follow_up

\* C19: the history changes only by being emptied on an advance, a queue load
\* or the start of a card, or by a successful evaluation appending exactly one
\* Turn {question, user_answer, evaluation} after the unchanged earlier Turns;
\* the history passed to evaluate is the history so far, whose Turns are those
\* of the current card in submission order
C19_HistoryAppendOnly ==
    [][/\ \/ conversation_history' = conversation_history
          \/ /\ conversation_history' = <<>>
             /\ last_cmd' \in MarkCmds \cup EvalSkipCmds \cup LoadCmds \cup {"start_new_card"}
          \/ /\ last_cmd' \in SubmitCmds
             /\ call_result' = "ok"
             /\ conversation_history' =
                   Append(conversation_history,
                          [question |-> eval_args'.question,
                           user_answer |-> eval_args'.user_answer,
                           evaluation |-> current_evaluation'])
       /\ last_cmd' \in SubmitCmds =>
             /\ eval_args'.conversation_history = conversation_history
             /\ call_result' = "ok" =>
                   Len(conversation_history') = Len(conversation_history) + 1
       /\ TurnsOfCurrentCard']_vars

C19_Witness ==
    /\ last_cmd \in SubmitCmds
    /\ call_result = "ok"
    /\ Len(conversation_history) = 2
    /\ eval_args.conversation_history = <<conversation_history[1]>>
    /\ conversation_history[2].question = conversation_history[1].evaluation.follow_up

\* C20: a malformed evaluator response (text that is not JSON, JSON that is not
\* an object) raises nothing and yields is_correct = false, score = 0.0 and the
\* default feedback
C20_MalformedYieldsDefault ==
    (last_cmd \in SubmitCmds /\ call_result \in {"nonjson", "notobject"}) =>
        /\ ~run_error
        /\ current_evaluation # NoEvaluation
        /\ current_evaluation.is_correct = FALSE
        /\ current_evaluation.score = 0
        /\ current_evaluation.feedback = DefaultFeedback

\* C21: a response object with any subset of the four fields gives an
\* evaluation in which every present field has the response's value and every
\* missing field its own default (is_correct false, score 0.0, feedback
\* "Unable to evaluate.", follow_up null), whatever the other fields are.
C21_MissingFieldsDefaultIndependently ==
    (last_cmd = "submit" /\ call_result = "ok") =>
        LET response == eval_args.response
            defaults == [is_correct |-> FALSE, score |-> 0,
                         feedback |-> <<"Unable", " ", "to", " ", "evaluate.">>,
                         follow_up |-> <<>>]
        IN  /\ DOMAIN current_evaluation = {"is_correct", "score", "feedback", "follow_up"}
            /\ \A f \in DOMAIN current_evaluation :
                    current_evaluation[f] =
                        IF f \in DOMAIN response THEN response[f] ELSE defaults[f]
            /\ conversation_history[Len(conversation_history)].evaluation = current_evaluation

\* a response with score 0.9 and no is_correct was evaluated
C21_Witness ==
    /\ last_cmd = "submit"
    /\ call_result = "ok"
    /\ eval_args.response = [score |-> 9, feedback |-> Feedback]
    /\ current_evaluation.score = 9
    /\ ~current_evaluation.is_correct

\* the card content given to the parser by the last run
RawContent == CurrentCard.content

\* the text the parser works on: the content without its Source lines
WorkingText(content) == RemoveSourceLines(content, 1)

\* text.strip().lstrip("#").strip()
HeaderStripped(text) == Strip(LStrip(Strip(text), {"#"}))

\* number of tokens of s that belong to T
Count(s, T) == Cardinality({i \in 1..Len(s) : s[i] \in T})

\* C22 as stated: for every raw content containing '---' the question is the
\* text before the first '---' of the raw content, leading header markers
\* stripped, and the answer is the text after that first '---'.
C22_SplitsRawAtFirstSeparator ==
    (last_cmd = "start_new_card" /\ \E i \in 1..Len(RawContent) : RawContent[i] = "---") =>
        \E i \in 1..Len(RawContent) :
            /\ RawContent[i] = "---"
            /\ \A j \in 1..(i - 1) : RawContent[j] # "---"
            /\ original_question = HeaderStripped(SubSeq(RawContent, 1, i - 1))
            /\ original_answer = Strip(SubSeq(RawContent, i + 1, Len(RawContent)))

\* C22 amended: when the text left after the Source lines are removed contains
\* '---', the question is that text before its first '---', trimmed and with
\* leading header markers stripped, and the answer is the trimmed text after
\* that first '---', later '---' included.
C22_SplitsWorkingTextAtFirstSeparator ==
    LET c == WorkingText(RawContent)
    IN  (last_cmd = "start_new_card" /\ \E i \in 1..Len(c) : c[i] = "---") =>
            \E i \in 1..Len(c) :
                /\ c[i] = "---"
                /\ \A j \in 1..(i - 1) : c[j] # "---"
                /\ original_question = HeaderStripped(SubSeq(c, 1, i - 1))
                /\ original_answer = Strip(SubSeq(c, i + 1, Len(c)))

\* a content with two separators was parsed: the second one is in the answer
C22_Witness ==
    /\ last_cmd = "start_new_card"
    /\ Count(RawContent, {"---"}) = 2
    /\ original_question = <<"Q1">>
    /\ Count(original_answer, {"---"}) = 1

\* C23: when the content has a Source line (line start, any case) the source
\* reference is the URL of the first one and no Source line stays in question
\* or answer (they hold one keyword and one URL less per Source line); when it
\* has none, the URL that follows the first << Source >> field is the source
\* reference.
C23_SourceLineExtractedAndExcluded ==
    last_cmd = "start_new_card" =>
        LET lines == {i \in 1..Len(RawContent) : SourceMatchAt(RawContent, i)}
            fields == {i \in 1..Len(RawContent) : TemplateSourceMatchAt(RawContent, i)}
            kept == original_question \o original_answer
        IN  /\ lines # {} =>
                /\ \E i \in lines :
                      /\ \A j \in lines : i <= j
                      /\ source_url = RawContent[SkipWs(RawContent, i + 1)]
                /\ Count(kept, SourceKw) = Count(RawContent, SourceKw) - Cardinality(lines)
                /\ Count(kept, Urls) = Count(RawContent, Urls) - Cardinality(lines)
            /\ (lines = {} /\ fields # {}) =>
                \E i \in fields :
                    /\ \A j \in fields : i <= j
                    /\ source_url = TemplateSourceUrl(RawContent, i)

\* a content with a lower-case Source line and a question was parsed
C23_Witness ==
    /\ last_cmd = "start_new_card"
    /\ Len(RawContent) > 0
    /\ RawContent[1] = "source:"
    /\ source_url = "http://y.test/b"
    /\ original_question = <<"Q1">>
    /\ ~ \E i \in 1..Len(original_answer) : original_answer[i] \in SourceKw \cup Urls

\* C24 as stated: every content gives a triple, and the worst result is the
\* whole text as question with an empty answer and no source: a content that
\* is not blank never comes back with nothing in question, answer and source.
C24_WorstCaseIsWholeText ==
    last_cmd = "start_new_card" =>
        /\ \A i \in 1..Len(original_question) : original_question[i] # "IndexError"
        /\ \A i \in 1..Len(original_answer) : original_answer[i] # "IndexError"
        /\ source_url \in Urls \cup {None}
        /\ Strip(RawContent) # <<>> =>
              original_question # <<>> \/ original_answer # <<>> \/ source_url # None

\* C24 amended: every content gives a triple of two texts made of the
\* content's tokens and a URL or null; a content with no Source line, no
\* separator, no template marker and no line break comes back whole (trimmed,
\* leading header markers stripped) as the question with an empty answer; the
\* worst result is ("", "", null), for blank content and for content made only
\* of header markers, separators and whitespace.
C24_TotalDownToEmptyQuestion ==
    last_cmd = "start_new_card" =>
        LET tokens == {RawContent[i] : i \in 1..Len(RawContent)}
            plain == tokens \cap ({"---", "<<", ">>", NL} \cup SourceKw) = {}
        IN  /\ \A i \in 1..Len(original_question) : original_question[i] \in tokens
            /\ \A i \in 1..Len(original_answer) : original_answer[i] \in tokens
            /\ source_url \in Urls \cup {None}
            /\ plain =>
                  /\ original_question = HeaderStripped(RawContent)
                  /\ original_answer = <<>>
                  /\ source_url = None
            /\ (original_question = <<>> /\ original_answer = <<>> /\ source_url = None) =>
                  tokens \subseteq {"#", "---"} \cup WS

\* a content made of one separator was parsed into ("", "", null)
C24_Witness ==
    /\ last_cmd = "start_new_card"
    /\ RawContent = <<"---">>
    /\ original_question = <<>>
    /\ original_answer = <<>>
    /\ source_url = None

\* C25: on the text left after the Source lines are removed, a '---' decides
\* first (split at its first occurrence, template markers or not); without
\* '---', a text with '<<' and '>>' is the question as a whole and the answer
\* is empty; otherwise the first line of the trimmed text, header markers
\* stripped, is the question and the trimmed remainder the answer.
C25_RulesInPriorityOrder ==
    last_cmd = "start_new_card" =>
        LET c == WorkingText(RawContent)
            seps == {i \in 1..Len(c) : c[i] = "---"}
            t == Strip(c)
            breaks == {i \in 1..Len(t) : t[i] = NL}
        IN  IF seps # {}
            THEN \E i \in seps :
                    /\ \A j \in seps : i <= j
                    /\ original_question = HeaderStripped(SubSeq(c, 1, i - 1))
                    /\ original_answer = Strip(SubSeq(c, i + 1, Len(c)))
            ELSE IF (\E i \in 1..Len(c) : c[i] = "<<") /\ (\E i \in 1..Len(c) : c[i] = ">>")
            THEN original_question = c /\ original_answer = <<>>
            ELSE IF breaks # {}
            THEN \E i \in breaks :
                    /\ \A j \in breaks : i <= j
                    /\ original_question = Strip(LStrip(SubSeq(t, 1, i - 1), {"#"}))
                    /\ original_answer = Strip(SubSeq(t, i + 1, Len(t)))
            ELSE original_question = Strip(LStrip(t, {"#"})) /\ original_answer = <<>>

\* a content with template markers and a separator was split at the separator
C25_Witness ==
    /\ last_cmd = "start_new_card"
    /\ RawContent = <<"<<", "Front", ">>", NL, "---", NL, "A1">>
    /\ original_question = <<"<<", "Front", ">>">>
    /\ original_answer = <<"A1">>

\* C26: after an edit is saved, the question and answer the session holds for
\* the current card are those parse_card_content gives for the content just
\* written to the card store.
C26_SessionHoldsParsedEdit ==
    (last_cmd = "save_changes" /\ call_result = "ok") =>
        LET parsed == parse_card_content(card_store[CurrentCard.id])
        IN  /\ original_question = parsed.question
            /\ original_answer = parsed.answer

\* C30: a save of expansion cards made while the card store holds the edit the
\* session saved for the current card writes that edited content followed by
\* the links section.
C30_ExpansionSaveKeepsEdit ==
    [][(/\ last_cmd' = "save_expansions"
        /\ call_result' = "ok"
        /\ card_store[CurrentCard.id] = NewContent(original_question, original_answer)
        /\ card_store[CurrentCard.id] # CurrentCard.content)
       => LET edited == card_store[CurrentCard.id]
              written == card_store'[CurrentCard.id]
          IN  /\ Len(written) > Len(edited)
              /\ SubSeq(written, 1, Len(edited)) = edited
              /\ \E i \in (Len(edited) + 1)..Len(written) : written[i] = LinksMarker]_vars

\* C27: a command spoken where it is not valid is rejected.  While an answer
\* is awaited, a continue or mark phrase makes no evaluate_answer call and
\* leaves review_state, index, history and follow-up counter as they are; in
\* the evaluation state a continue phrase is not queued when the follow-up
\* depth is exhausted (without a pending follow-up it never is).
C27_InvalidCommandRejected ==
    [][/\ (/\ Presented
           /\ last_cmd' \in {"voice_skip", "voice_noop", "voice_submit"}
           /\ LowerStrip(run_input') \in ContinuePhrases \cup NavContinuePhrases
                                           \cup RememberedPhrases \cup ForgotPhrases)
          => /\ eval_args' = NoCall
             /\ UNCHANGED <<review_state, current_card_index,
                            conversation_history, follow_up_count>>
       /\ (/\ review_state = "evaluating"
           /\ last_cmd' = "nav_voice"
           /\ LowerStrip(run_input') \in NavContinuePhrases
           /\ (current_evaluation.follow_up = <<>> \/ follow_up_count >= max_follow_ups))
          => /\ pending_action' # "continue"
             /\ UNCHANGED <<review_state, current_card_index,
                            conversation_history, follow_up_count>>]_vars

\* C28: a run that evaluates an answer or records an outcome works with the
\* question, expected answer and source URL parsed from the card at
\* current_cards[current_card_index].
C28_CardInUseIsCurrentCard ==
    [][last_cmd' \in SubmitCmds \cup MarkCmds =>
            LET parsed == parse_card_content(CurrentCard.content)
            IN  /\ original_question = parsed.question
                /\ original_answer = parsed.answer
                /\ source_url = parsed.source_url]_vars

\* C29: the run that st.rerun() starts after a recognised voice command is the
\* handler that consumes pending_action; the recording is not transcribed and
\* queued a second time.
C29_CommandConsumedByNextRun ==
    [][(/\ last_cmd = "nav_voice"
        /\ last_cmd' \in {"nav_voice_again", "pending_skip", "pending_continue",
                           "pending_remembered", "pending_forgot"})
       => /\ last_cmd' # "nav_voice_again"
          /\ pending_action' = "none"]_vars

\* C32: between two queue fetches no card has two outcome records, and while
\* the queue is held a card that has one lies before the current index.
C32_OneOutcomePerCard ==
    /\ \A i, j \in 1..Len(review_log) :
            review_log[i].card_id = review_log[j].card_id => i = j
    /\ current_cards # <<>> =>
            \A i \in 1..Len(review_log) :
                \E k \in 1..Len(current_cards) :
                    /\ current_cards[k].id = review_log[i].card_id
                    /\ k <= current_card_index

\* both cards of a queue were marked, the second after its record failed to
\* reach Mochi
C32_Witness ==
    /\ Len(review_log) = 2
    /\ review_log[1].card_id # review_log[2].card_id
    /\ last_cmd \in MarkCmds
    /\ call_result = "raise"
    /\ review_state = "complete"

\* C33: in the evaluation state the history holds one Turn per question asked
\* (the card's question and follow_up_count follow-ups) and current_evaluation
\* is the evaluation of its last Turn.
C33_HistoryMatchesFollowUps ==
    review_state = "evaluating" =>
        /\ Len(conversation_history) = follow_up_count + 1
        /\ current_evaluation = conversation_history[Len(conversation_history)].evaluation

\* the second follow-up of a card has been answered
C33_Witness ==
    /\ review_state = "evaluating"
    /\ follow_up_count = 2
    /\ Len(conversation_history) = 3
    /\ last_cmd \in SubmitCmds

\* C34: source content goes to evaluate_answer only with the 'use source'
\* flag on, and it is the source_cache entry of the source URL of the card at
\* current_cards[current_card_index]; a card without source URL gets none.
C34_SourcePassedIsCurrentCards ==
    [][(last_cmd' \in SubmitCmds /\ eval_args'.source_content # <<>>) =>
            LET url == parse_card_content(CurrentCard.content).source_url
            IN  /\ use_source
                /\ url # None
                /\ url \in DOMAIN source_cache
                /\ eval_args'.source_content = source_cache[url]]_vars

ChatCmds == {"chat", "chat_voice"}

\* a message list in which user and assistant take turns, the user first
Alternating(messages) ==
    \A i \in 1..Len(messages) :
        messages[i].role = IF i % 2 = 1 THEN "user" ELSE "assistant"

\* C31: the message list sent by a chat turn is the earlier chat messages in
\* order, roles alternating, followed by the learner's new message, once
C31_NewMessageOnceAndLast ==
    [][(last_cmd' \in ChatCmds) =>
            /\ lib_call'.messages =
                   Append(chat_messages, Message("user", run_input'))
            /\ Alternating(lib_call'.messages)]_vars

\* C35: a save of expansion cards leaves the original card's content in the
\* store linking every expansion card created from it: the cards of the batch
\* are linked, and the ids linked by earlier batches are still there.
C35_StoreLinksEveryExpansion ==
    [][(last_cmd' = "save_expansions" /\ call_result' = "ok") =>
            LET written == card_store'[CurrentCard.id]
            IN  /\ \A i \in (Len(created_cards) + 1)..Len(created_cards') :
                        Contains(written, created_cards'[i].id)
                /\ \A i \in 1..Len(created_cards) :
                        Contains(card_store[CurrentCard.id], created_cards[i].id)
                            => Contains(written, created_cards[i].id)]_vars

\* C36: fetch_source_content returns None or a text of at most max_length
\* characters.
C36_AtMostMaxLength ==
    (lib_call.fn = "fetch_source_content" /\ lib_call.done) =>
        Len(lib_call.result) <= lib_call.max_length

\* a call of resolve_card_images has returned
Resolved == lib_call.fn = "resolve_card_images" /\ lib_call.done

\* the number of the match found at position i of content
MatchNo(content, i) == Cardinality({j \in 1..i : content[j] \in MediaRefs})

\* C37 as stated: each reference whose own fetch fails is left unchanged, each
\* whose fetch succeeds is replaced by its data URL, the rest is unchanged
C37_EachReferenceByItsOwnFetch ==
    Resolved =>
        LET content == lib_call.content
            result == lib_call.result
        IN  /\ Len(result) = Len(content)
            /\ \A i \in 1..Len(content) :
                    result[i] =
                        IF content[i] \in MediaRefs
                           /\ lib_call.outcomes[MatchNo(content, i)]
                        THEN DataUrl(content[i]) ELSE content[i]

\* C37: resolve_card_images returns the content in which a reference is
\* replaced by its data URL when a fetch of it succeeded during the call and
\* is left unchanged when every fetch of it failed; text outside references,
\* and content without references, is returned unchanged.
C37_ReferenceReplacedIffFetched ==
    Resolved =>
        LET content == lib_call.content
            result == lib_call.result
            matches == MediaMatches(content)
            Fetched(ref) ==
                \E k \in 1..Len(matches) : matches[k] = ref /\ lib_call.outcomes[k]
        IN  /\ Len(result) = Len(content)
            /\ \A i \in 1..Len(content) :
                    result[i] =
                        IF content[i] \in MediaRefs /\ Fetched(content[i])
                        THEN DataUrl(content[i]) ELSE content[i]

\* a reference that occurs twice, fetched at the second attempt only
C37_Witness ==
    /\ Resolved
    /\ lib_call.content = <<"![](@media/a.png)", "text", "![](@media/a.png)">>
    /\ lib_call.outcomes = <<FALSE, TRUE>>
    /\ lib_call.result = <<"![](data:image/png;base64,YQ==)", "text",
                           "![](data:image/png;base64,YQ==)">>

\* a pagination loop is running or has ended
Paging == lib_call.fn \in {"get_decks", "get_cards_by_deck"}

RECURSIVE PagesConcat(_, _)
\* the docs of the pages requested, in the order of the requests
PagesConcat(server, requests) ==
    IF requests = <<>> THEN <<>>
    ELSE (IF server[Head(requests)].has_docs THEN DocsOf(Head(requests)) ELSE <<>>)
            \o PagesConcat(server, Tail(requests))

\* C38: against a server with finitely many bookmark values the pagination
\* loop requests each page once, so that it ends after at most as many requests
\* as there are pages, and the list it returns is the docs of the pages
\* fetched, in fetch order.
C38_EachPageRequestedOnce ==
    Paging =>
        /\ \A i, j \in 1..Len(lib_call.requests) :
                lib_call.requests[i] = lib_call.requests[j] => i = j
        /\ (lib_call.done /\ ~lib_call.raised) =>
                lib_call.docs = PagesConcat(lib_call.server, lib_call.requests)

====
